---- MODULE Spec2Model ----
(***************************************************************************)
(* Vector3D of rust-methods/src/brep_octree/brep_element.rs.               *)
(*                                                                         *)
(* The components are f64.  The model keeps the structure of IEEE-754      *)
(* binary floating point (a significand of Precision bits, gradual         *)
(* underflow, round to nearest with ties to even, overflow to infinity,    *)
(* NaN) in a format narrow enough to enumerate.  A finite value is the     *)
(* integer number of units it holds, one unit being the smallest positive  *)
(* subnormal, 2^-FracBits.  The two zeros are one value: they compare      *)
(* equal and no operation of Vector3D tells them apart.                    *)
(***************************************************************************)
EXTENDS Integers, Sequences, FiniteSets, TLC

\* ---- the scaled-down f64 format ----------------------------------------
\* bits of significand (f64: 53)
Precision == 5
\* number of binades above the lowest one (f64: 2045)
MaxShift == 6
\* 1.0 is 2^FracBits units (f64: 1074)
FracBits == 3
\* operations applied to a vector after its construction
MaxOps == 3

RECURSIVE Pow2(_)
Pow2(n) == IF n <= 0 THEN 1 ELSE 2 * Pow2(n - 1)

One == Pow2(FracBits)
MantLimit == Pow2(Precision)
MaxFinite == (MantLimit - 1) * Pow2(MaxShift)

Abs(n) == IF n < 0 THEN -n ELSE n

\* f64 values
Fin(n) == [cls |-> "fin", v |-> n]
PosInf == [cls |-> "inf", v |-> 1]
NegInf == [cls |-> "inf", v |-> -1]
NaN == [cls |-> "nan", v |-> 0]
Inf(sign) == IF sign < 0 THEN NegInf ELSE PosInf

IsFinite(x) == x.cls = "fin"
IsNaN(x) == x.cls = "nan"
Sign(x) == IF x.v < 0 THEN -1 ELSE IF x.v > 0 THEN 1 ELSE 0

\* the binade of a magnitude: the spacing of the format there is 2^ShiftOf
RECURSIVE ShiftOf(_)
ShiftOf(q) == IF q < MantLimit THEN 0 ELSE 1 + ShiftOf(q \div 2)

\* the magnitudes the format holds
Representable(n) ==
    /\ n >= 0
    /\ n <= MaxFinite
    /\ n % Pow2(ShiftOf(n)) = 0

Magnitudes == {n \in 0..MaxFinite : Representable(n)}

\* num/den >= 0 rounded to the nearest magnitude, ties to the even
\* significand; MaxFinite + 1 stands for a result beyond the largest finite
RoundMagnitude(num, den) ==
    LET ulp == Pow2(ShiftOf(num \div den))
        d == den * ulp
        q == num \div d
        r == num - q * d
        m == IF 2 * r > d \/ (2 * r = d /\ q % 2 = 1) THEN q + 1 ELSE q
    IN IF m * ulp > MaxFinite THEN MaxFinite + 1 ELSE m * ulp

\* the f64 nearest to sign * num / den
Round(sign, num, den) ==
    LET mag == RoundMagnitude(num, den)
    IN IF mag > MaxFinite THEN Inf(sign) ELSE Fin(sign * mag)

\* x + y in f64
FAdd(x, y) ==
    IF IsNaN(x) \/ IsNaN(y) THEN NaN
    ELSE IF ~IsFinite(x) /\ ~IsFinite(y) THEN (IF x.v = y.v THEN x ELSE NaN)
    ELSE IF ~IsFinite(x) THEN x
    ELSE IF ~IsFinite(y) THEN y
    ELSE LET s == x.v + y.v
         IN Round(IF s < 0 THEN -1 ELSE 1, Abs(s), 1)

\* x * y in f64
FMul(x, y) ==
    IF IsNaN(x) \/ IsNaN(y) THEN NaN
    ELSE IF ~IsFinite(x) \/ ~IsFinite(y)
         THEN (IF Sign(x) = 0 \/ Sign(y) = 0 THEN NaN ELSE Inf(Sign(x) * Sign(y)))
    ELSE LET p == x.v * y.v
         IN Round(IF p < 0 THEN -1 ELSE 1, Abs(p), One)

\* x.sqrt() in f64
FSqrt(x) ==
    IF IsNaN(x) THEN NaN
    ELSE IF x.v < 0 THEN NaN
    ELSE IF ~IsFinite(x) THEN PosInf
    ELSE LET sq == x.v * One
             lo == CHOOSE r \in Magnitudes :
                       /\ r * r <= sq
                       /\ \A t \in Magnitudes : t * t <= sq => t <= r
             hi == IF lo = MaxFinite THEN lo
                   ELSE CHOOSE r \in Magnitudes :
                       /\ r > lo
                       /\ \A t \in Magnitudes : t > lo => r <= t
             mid == lo + hi
             even == (lo \div Pow2(ShiftOf(lo))) % 2 = 0
         IN IF 4 * sq < mid * mid \/ (4 * sq = mid * mid /\ even)
            THEN Fin(lo) ELSE Fin(hi)

\* == of f64
FEq(x, y) == ~IsNaN(x) /\ ~IsNaN(y) /\ x = y

\* >= of f64
FGe(x, y) ==
    /\ ~IsNaN(x)
    /\ ~IsNaN(y)
    /\ IF IsFinite(x) /\ IsFinite(y) THEN x.v >= y.v
       ELSE IF IsFinite(y) THEN x.v > 0
       ELSE IF IsFinite(x) THEN y.v < 0
       ELSE x.v >= y.v

\* ---- Vector3D ----------------------------------------------------------
\* struct Vector3D { i: f64, j: f64, k: f64 }
Vector3D(i, j, k) == [i |-> i, j |-> j, k |-> k]

\* a numeric argument: an integer type with From into f64, or an f64
I32(n) == [kind |-> "i32", n |-> n, x |-> Fin(0)]
F64(x) == [kind |-> "f64", n |-> 0, x |-> x]

\* a conversion that goes through an unsigned type and loses the sign
Into_LosesSign(a) ==
    IF a.kind = "i32"
    THEN Round(1, Abs(a.n) * One, 1)
    ELSE a.x

\* Into<f64>::into
Into(a) ==
    IF a.kind = "i32"
    THEN Round(IF a.n < 0 THEN -1 ELSE 1, Abs(a.n) * One, 1)
    ELSE a.x

\* Vector3D::new
New(i, j, k) == Vector3D(Into(i), Into(j), Into(k))

\* the sum of squares without the square root
Length_NoSqrt(self) ==
    FAdd(FAdd(FMul(self.i, self.i), FMul(self.j, self.j)),
         FMul(self.k, self.k))

\* the first square left out of the sum
Length_DropsI(self) ==
    FSqrt(FAdd(FMul(self.j, self.j), FMul(self.k, self.k)))

\* Vector3D::length
Length(self) ==
    FSqrt(FAdd(FAdd(FMul(self.i, self.i), FMul(self.j, self.j)),
               FMul(self.k, self.k)))

\* the last two elements exchanged
ToArray_Swapped(self) == <<self.i, self.k, self.j>>

\* Vector3D::to_array
ToArray(self) == <<self.i, self.j, self.k>>

\* the third product left out
Dot_DropsK(self, other) ==
    FAdd(FMul(self.i, other.i), FMul(self.j, other.j))

\* Vector3D::dot
Dot(self, other) ==
    FAdd(FAdd(FMul(self.i, other.i), FMul(self.j, other.j)),
         FMul(self.k, other.k))

\* j takes the k of the right operand
Add_CrossedComponents(self, rhs) ==
    Vector3D(FAdd(self.i, rhs.i), FAdd(self.j, rhs.k), FAdd(self.k, rhs.k))

\* i adds self.i to itself
Add_SelfTwice(self, rhs) ==
    Vector3D(FAdd(self.i, self.i), FAdd(self.j, rhs.j), FAdd(self.k, rhs.k))

\* j ignores the right operand
Add_IgnoresRhsJ(self, rhs) ==
    Vector3D(FAdd(self.i, rhs.i), self.j, FAdd(self.k, rhs.k))

\* impl Add for Vector3D
Add(self, rhs) ==
    Vector3D(FAdd(self.i, rhs.i), FAdd(self.j, rhs.j), FAdd(self.k, rhs.k))

\* k is left unscaled
Mul_SkipsK(self, scalar) ==
    LET scalar_f64 == Into(scalar)
    IN Vector3D(FMul(self.i, scalar_f64), FMul(self.j, scalar_f64), self.k)

\* k adds the scalar instead of multiplying by it
Mul_AddsScalarK(self, scalar) ==
    LET scalar_f64 == Into(scalar)
    IN Vector3D(FMul(self.i, scalar_f64), FMul(self.j, scalar_f64),
                FAdd(self.k, scalar_f64))

\* impl Mul<T> for Vector3D
Mul(self, scalar) ==
    LET scalar_f64 == Into(scalar)
    IN Vector3D(FMul(self.i, scalar_f64), FMul(self.j, scalar_f64),
                FMul(self.k, scalar_f64))

\* derive(PartialEq) for Vector3D
VecEq(a, b) == FEq(a.i, b.i) /\ FEq(a.j, b.j) /\ FEq(a.k, b.k)

\* ---- inputs ------------------------------------------------------------
Tiny == Fin(1)
Half == Fin(One \div 2)
Huge == Fin(MaxFinite)

\* arguments given to Vector3D::new
InputVectors ==
    { <<I32(1), I32(2), I32(3)>>,
      <<F64(Fin(2 * One)), F64(Fin(3 * One)), F64(Fin(4 * One))>>,
      <<I32(1), I32(0), I32(0)>>,
      <<I32(2), I32(2), I32(2)>>,
      <<I32(0), I32(0), I32(0)>>,
      <<I32(-3), I32(4), I32(0)>>,
      <<F64(Tiny), F64(Fin(0)), F64(Fin(-1))>>,
      <<F64(Huge), F64(Fin(-MaxFinite)), F64(Half)>>,
      <<F64(Half), I32(-2), F64(Fin(3))>> }

\* scalars given to mul
InputScalars == {I32(3), I32(0), I32(-1), F64(Half)}

\* ---- the state machine -------------------------------------------------
VARIABLES
    acc,    \* the vector the caller holds
    last,   \* the call that gave this state: operation, operands, result
    steps   \* calls made on the vector since Vector3D::new

vars == <<acc, last, steps>>

ZeroVec == Vector3D(Fin(0), Fin(0), Fin(0))

Call(op, lhs, rhs, args, num, arr) ==
    [op |-> op, lhs |-> lhs, rhs |-> rhs, args |-> args, num |-> num, arr |-> arr]

Init ==
    \E a \in InputVectors :
        /\ acc = New(a[1], a[2], a[3])
        /\ last = Call("new", ZeroVec, ZeroVec, a, Fin(0), <<>>)
        /\ steps = 0

DoNew ==
    \E a \in InputVectors :
        /\ acc' = New(a[1], a[2], a[3])
        /\ last' = Call("new", ZeroVec, ZeroVec, a, Fin(0), <<>>)
        /\ steps' = 0

DoAdd ==
    /\ steps < MaxOps
    /\ \E a \in InputVectors :
        LET rhs == New(a[1], a[2], a[3])
        IN /\ acc' = Add(acc, rhs)
           /\ last' = Call("add", acc, rhs, <<>>, Fin(0), <<>>)
    /\ steps' = steps + 1

DoMul ==
    /\ steps < MaxOps
    /\ \E s \in InputScalars :
        /\ acc' = Mul(acc, s)
        /\ last' = Call("mul", acc, ZeroVec, <<s>>, Fin(0), <<>>)
    /\ steps' = steps + 1

DoLength ==
    /\ steps < MaxOps
    /\ last' = Call("length", acc, ZeroVec, <<>>, Length(acc), <<>>)
    /\ steps' = steps + 1
    /\ UNCHANGED acc

DoToArray ==
    /\ steps < MaxOps
    /\ last' = Call("to_array", acc, ZeroVec, <<>>, Fin(0), ToArray(acc))
    /\ steps' = steps + 1
    /\ UNCHANGED acc

DoDot ==
    /\ steps < MaxOps
    /\ \E a \in InputVectors :
        LET other == New(a[1], a[2], a[3])
        IN last' = Call("dot", acc, other, <<>>, Dot(acc, other), <<>>)
    /\ steps' = steps + 1
    /\ UNCHANGED acc

Next == DoNew \/ DoAdd \/ DoMul \/ DoLength \/ DoToArray \/ DoDot

Spec == Init /\ [][Next]_vars

\* ---- helpers of the properties ----------------------------------------
Components == {"i", "j", "k"}
Comp(v, c) == IF c = "i" THEN v.i ELSE IF c = "j" THEN v.j ELSE v.k

AllFinite(v) == \A c \in Components : IsFinite(Comp(v, c))
AnyNaN(v) == \E c \in Components : IsNaN(Comp(v, c))

\* the value an argument denotes, in units
Denoted(a) == IF a.kind = "i32" THEN Fin(a.n * One) ELSE a.x

Made(a) == New(a[1], a[2], a[3])

\* x + y and x * y are computed without rounding, overflow or underflow
ExactAdd(x, y) ==
    /\ IsFinite(x) /\ IsFinite(y)
    /\ Representable(Abs(x.v + y.v))
ExactMul(x, y) ==
    /\ IsFinite(x) /\ IsFinite(y)
    /\ (x.v * y.v) % One = 0
    /\ Representable(Abs(x.v * y.v) \div One)

\* twice the least magnitude that rounds beyond the largest finite value
TwiceOverflow == 2 * MaxFinite + Pow2(MaxShift)

Example123 == Vector3D(Fin(One), Fin(2 * One), Fin(3 * One))
Example234 == Vector3D(Fin(2 * One), Fin(3 * One), Fin(4 * One))

\* ---- C1 ----------------------------------------------------------------
\* C1: a + b is the vector of the three sums of the components in the same
\* position: each result component is the f64 sum of the two operand
\* components of that position, equal to their exact sum when that is
\* representable, and new(1,2,3) + new(2,3,4) == new(3,5,7).
C1_AddComponentwise ==
    last.op = "add" =>
        /\ \A c \in Components :
            /\ Comp(acc, c) = FAdd(Comp(last.lhs, c), Comp(last.rhs, c))
            /\ ExactAdd(Comp(last.lhs, c), Comp(last.rhs, c)) =>
                   Comp(acc, c) = Fin(Comp(last.lhs, c).v + Comp(last.rhs, c).v)
        /\ (last.lhs = Example123 /\ last.rhs = Example234) =>
               VecEq(acc, Vector3D(Fin(3 * One), Fin(5 * One), Fin(7 * One)))

C1_Witness ==
    /\ last.op = "add"
    /\ last.lhs = Example123
    /\ last.rhs = Example234
    /\ acc = Vector3D(Fin(3 * One), Fin(5 * One), Fin(7 * One))

\* ---- C2 ----------------------------------------------------------------
\* C2: v * s is the vector of the three products of the components with the
\* one converted scalar: each result component is the f64 product of the
\* component of that position and the converted scalar, equal to the exact
\* product when that is representable, and new(1,2,3) * 3 == new(3,6,9).
C2_MulUniform ==
    last.op = "mul" =>
        LET sc == Denoted(last.args[1])
        IN /\ \A c \in Components :
               /\ Comp(acc, c) = FMul(Comp(last.lhs, c), sc)
               /\ ExactMul(Comp(last.lhs, c), sc) =>
                      Comp(acc, c) = Fin((Comp(last.lhs, c).v * sc.v) \div One)
           /\ (last.lhs = Example123 /\ last.args[1] = I32(3)) =>
                  VecEq(acc, Vector3D(Fin(3 * One), Fin(6 * One), Fin(9 * One)))

C2_Witness ==
    /\ last.op = "mul"
    /\ last.lhs = Example123
    /\ last.args[1] = I32(3)
    /\ acc = Vector3D(Fin(3 * One), Fin(6 * One), Fin(9 * One))

\* ---- C3 ----------------------------------------------------------------
\* C3: to_array gives exactly three elements, the components in the order
\* i, j, k, and for a vector just made by new(a, b, c) they are the values
\* a, b, c in the order given.
C3_ToArrayOfNew ==
    last.op = "to_array" =>
        /\ Len(last.arr) = 3
        /\ last.arr = <<last.lhs.i, last.lhs.j, last.lhs.k>>
        /\ acc = last.lhs
        /\ steps = 1 =>
               /\ \E a \in InputVectors : last.lhs = Made(a)
               /\ \A a \in InputVectors :
                      last.lhs = Made(a) =>
                          last.arr = <<Denoted(a[1]), Denoted(a[2]), Denoted(a[3])>>

C3_Witness ==
    /\ last.op = "to_array"
    /\ steps = 1
    /\ last.arr = <<Fin(2 * One), Fin(3 * One), Fin(4 * One)>>

\* ---- C4 ----------------------------------------------------------------
\* C4: dot(a, b) is a.i*b.i + a.j*b.j + a.k*b.k in f64, summed from the left;
\* it is the exact sum of the three products when no step rounds, and
\* dot(new(1,0,0), new(2,2,2)) == 2.
DotExact(a, b) ==
    /\ \A c \in Components : ExactMul(Comp(a, c), Comp(b, c))
    /\ ExactAdd(FMul(a.i, b.i), FMul(a.j, b.j))
    /\ ExactAdd(FAdd(FMul(a.i, b.i), FMul(a.j, b.j)), FMul(a.k, b.k))

C4_DotSumOfProducts ==
    last.op = "dot" =>
        /\ last.num = FAdd(FAdd(FMul(last.lhs.i, last.rhs.i),
                                FMul(last.lhs.j, last.rhs.j)),
                           FMul(last.lhs.k, last.rhs.k))
        /\ DotExact(last.lhs, last.rhs) =>
               /\ IsFinite(last.num)
               /\ last.num.v * One = last.lhs.i.v * last.rhs.i.v
                                     + last.lhs.j.v * last.rhs.j.v
                                     + last.lhs.k.v * last.rhs.k.v
        /\ (last.lhs = Vector3D(Fin(One), Fin(0), Fin(0))
            /\ last.rhs = Vector3D(Fin(2 * One), Fin(2 * One), Fin(2 * One))) =>
               FEq(last.num, Fin(2 * One))
        /\ acc = last.lhs

C4_Witness ==
    /\ last.op = "dot"
    /\ last.lhs = Example123
    /\ last.rhs = Example234
    /\ last.num = Fin(20 * One)

\* ---- C5 ----------------------------------------------------------------
\* C5: new from integers that f64 holds exactly stores, in each position,
\* the integer's value, and the vector equals the one made from the same
\* values given as f64; in general each component is the converted argument
\* of the same position.
ExactInt(a) == a.kind = "i32" /\ Representable(Abs(a.n) * One)

C5_NewFromIntegers ==
    last.op = "new" =>
        /\ acc = Vector3D(Denoted(last.args[1]), Denoted(last.args[2]),
                          Denoted(last.args[3]))
        /\ (\A p \in 1..3 : ExactInt(last.args[p])) =>
               /\ acc.i.v = last.args[1].n * One
               /\ acc.j.v = last.args[2].n * One
               /\ acc.k.v = last.args[3].n * One
               /\ VecEq(acc, New(F64(Fin(last.args[1].n * One)),
                                 F64(Fin(last.args[2].n * One)),
                                 F64(Fin(last.args[3].n * One))))

C5_Witness ==
    /\ last.op = "new"
    /\ last.args = <<I32(-3), I32(4), I32(0)>>
    /\ acc = Vector3D(Fin(-3 * One), Fin(4 * One), Fin(0))

\* ---- C6 ----------------------------------------------------------------
\* C6: length(v) is the f64 square root of v.i*v.i + v.j*v.j + v.k*v.k: when
\* that sum is finite, length(v) is the non-negative f64 nearest to its
\* real square root (the root itself when f64 holds it), and
\* length(new(2,3,4)) == sqrt(29).
SumOfSquares(v) ==
    FAdd(FAdd(FMul(v.i, v.i), FMul(v.j, v.j)), FMul(v.k, v.k))

\* no magnitude is nearer than res to the real square root of sq / One
NearestSqrt(res, sq) ==
    \A r \in Magnitudes :
        /\ res < r => 4 * sq <= (res + r) * (res + r)
        /\ res > r => 4 * sq >= (res + r) * (res + r)

C6_LengthIsNorm ==
    last.op = "length" =>
        LET sum == SumOfSquares(last.lhs)
        IN /\ last.num = FSqrt(sum)
           /\ IsFinite(sum) =>
                  /\ IsFinite(last.num)
                  /\ last.num.v >= 0
                  /\ NearestSqrt(last.num.v, sum.v * One)
                  /\ \A r \in Magnitudes :
                         r * r = sum.v * One => last.num.v = r
           /\ last.lhs = Example234 => FEq(last.num, FSqrt(Fin(29 * One)))
           /\ acc = last.lhs

C6_Witness ==
    /\ last.op = "length"
    /\ last.lhs = Vector3D(Fin(-3 * One), Fin(4 * One), Fin(0))
    /\ last.num = Fin(5 * One)

\* ---- C7 ----------------------------------------------------------------
\* C7 as claimed: length(v) >= 0 always, the zero vector has length 0, and
\* length(v) == 0 only when all three components are 0.
C7_ZeroLengthOnlyForZeroVector ==
    last.op = "length" =>
        /\ FGe(last.num, Fin(0))
        /\ last.lhs = ZeroVec => FEq(last.num, Fin(0))
        /\ FEq(last.num, Fin(0)) => last.lhs = ZeroVec

\* C7: length(v) >= 0 for every v without a NaN component, and is NaN
\* otherwise; the zero vector has length 0; length(v) == 0 exactly when
\* the squares of all three components are 0 in f64, which holds for zero
\* components and for non-zero components small enough for the square to
\* underflow; a component with a non-zero square gives a length > 0.
C7_ZeroLengthIffSquaresVanish ==
    last.op = "length" =>
        /\ ~AnyNaN(last.lhs) => FGe(last.num, Fin(0))
        /\ AnyNaN(last.lhs) => IsNaN(last.num)
        /\ last.lhs = ZeroVec => FEq(last.num, Fin(0))
        /\ FEq(last.num, Fin(0)) <=>
               \A c \in Components :
                   FMul(Comp(last.lhs, c), Comp(last.lhs, c)) = Fin(0)

C7_Witness ==
    /\ last.op = "length"
    /\ last.lhs # ZeroVec
    /\ AllFinite(last.lhs)
    /\ last.num = Fin(0)

\* ---- C8 ----------------------------------------------------------------
\* C8 as claimed: every vector made by new, + and * from finite inputs has
\* three finite components.
C8_ComponentsAlwaysFinite == AllFinite(acc)

IsF64(x) ==
    \/ x.cls = "fin" /\ Representable(Abs(x.v))
    \/ x \in {PosInf, NegInf, NaN}

\* C8: every component is always an f64 value (finite, an infinity or NaN,
\* never absent); new with finite inputs gives finite components; a sum or a
\* product of finite operands is finite exactly when the exact result
\* rounds to at most the largest finite f64, and is an infinity otherwise.
C8_FiniteUnlessOverflow ==
    /\ \A c \in Components : IsF64(Comp(acc, c))
    /\ last.op = "new" => AllFinite(acc)
    /\ last.op = "add" =>
           \A c \in Components :
               LET x == Comp(last.lhs, c)
                   y == Comp(last.rhs, c)
               IN (IsFinite(x) /\ IsFinite(y)) =>
                      /\ IsFinite(Comp(acc, c)) <=>
                             2 * Abs(x.v + y.v) < TwiceOverflow
                      /\ ~IsNaN(Comp(acc, c))
    /\ last.op = "mul" =>
           \A c \in Components :
               LET x == Comp(last.lhs, c)
                   y == Denoted(last.args[1])
               IN (IsFinite(x) /\ IsFinite(y)) =>
                      /\ IsFinite(Comp(acc, c)) <=>
                             2 * Abs(x.v * y.v) < TwiceOverflow * One
                      /\ ~IsNaN(Comp(acc, c))

C8_Witness ==
    /\ last.op \in {"add", "mul"}
    /\ AllFinite(last.lhs)
    /\ ~AllFinite(acc)

\* ---- C9 ----------------------------------------------------------------
\* C9 as claimed: u + v == v + u for all vectors u and v.
C9_AddCommutes ==
    last.op = "add" => VecEq(acc, Add(last.rhs, last.lhs))

\* C9: u + v and v + u have the same three components, and u + v == v + u
\* holds exactly when no component of the sum is NaN (NaN != NaN), so in
\* particular for all finite u and v.
C9_AddCommutesUnlessNaN ==
    last.op = "add" =>
        /\ acc = Add(last.rhs, last.lhs)
        /\ VecEq(acc, Add(last.rhs, last.lhs)) <=> ~AnyNaN(acc)
        /\ (AllFinite(last.lhs) /\ AllFinite(last.rhs)) =>
               VecEq(acc, Add(last.rhs, last.lhs))

C9_Witness ==
    /\ last.op = "add"
    /\ last.lhs # last.rhs
    /\ AllFinite(last.lhs)
    /\ VecEq(acc, Add(last.rhs, last.lhs))
    /\ acc # last.lhs
    /\ acc # last.rhs

\* ---- C10 ---------------------------------------------------------------
\* every sum and product of (u + v) * s and of u * s + v * s is exact
ExactDistribution(u, v, sc) ==
    \A c \in Components :
        LET x == Comp(u, c)
            y == Comp(v, c)
        IN /\ ExactAdd(x, y)
           /\ ExactMul(FAdd(x, y), sc)
           /\ ExactMul(x, sc)
           /\ ExactMul(y, sc)
           /\ ExactAdd(FMul(x, sc), FMul(y, sc))

\* C10: (u + v) * s == u * s + v * s wherever every sum and product on both
\* sides is computed exactly.
C10_MulDistributesWhereExact ==
    last.op = "mul" =>
        \A a, b \in InputVectors :
            (/\ last.lhs = Add(Made(a), Made(b))
             /\ ExactDistribution(Made(a), Made(b), Denoted(last.args[1]))) =>
                VecEq(acc, Add(Mul(Made(a), last.args[1]),
                               Mul(Made(b), last.args[1])))

C10_Witness ==
    /\ last.op = "mul"
    /\ last.args[1] = I32(3)
    /\ last.lhs = Add(Example123, Example234)
    /\ ExactDistribution(Example123, Example234, Fin(3 * One))
    /\ acc = Vector3D(Fin(9 * One), Fin(15 * One), Fin(21 * One))
====
